---- MODULE Spec2Model ----
(***************************************************************************)
(* Model of the defects4j validation pipeline of CoderUJB's test-generation *)
(* task (src/code_ujb/tasks/code_ujb_testgen.py): validate_all_patches,     *)
(* run_d4j_test, analysis_coverage and the collection loop of               *)
(* CodeUJBTestGen.evaluate.                                                 *)
(*                                                                         *)
(* Units and abstractions                                                   *)
(*  - time is counted in seconds; one modelled pass through the sleep       *)
(*    branch of a polling loop stands for PollTick seconds of 10 ms sleeps. *)
(*  - coverage ratios are kept in hundredths (80 stands for 0.8), which is  *)
(*    float(P) / 100.0 for the integer percentages the model draws.         *)
(*  - tool output is decodable text; a line is a string (run-test) or a     *)
(*    [label, value] record (coverage).                                     *)
(*  - the random 8-character suffix is a choice from Suffixes.              *)
(*  - the floats of get_pass_at_k and of the means are exact rationals     *)
(*    [num, den]; rounding is not modelled.                                *)
(*                                                                         *)
(* Specifications                                                          *)
(*  - Spec, FairSpec: evaluate with NumTrials trials submitted.            *)
(*  - ConcSpec: NumRacers trials of one batch competing for the pool.      *)
(*  - AggSpec: the aggregation of evaluate over every list of Outcomes.    *)
(*  - EstSpec: get_pass_at_k over every triple of arguments.               *)
(*  - BulkSpec: the aggregation over corpora with up to MaxPerTask trials  *)
(*    for a task.                                                          *)
(*  - SpliceSpec: the splice over every source, candidate and span.        *)
(***************************************************************************)
EXTENDS Integers, Sequences, FiniteSets, TLC

\* ---------------------------------------------------------------- bounds
NumTrials == 1
NumRacers == 2
GensPerTask == 2
NumSuffixes == 2
PoolWorkers == 2
PollTick == 60
ClockCap == 300
MaxResults == 3
NumAggTasks == 2
MaxN == 6
MaxK == 7
MaxSourceLen == 3
MaxPerTask == 5
MaxPatchLen == 2

\* ------------------------------------------------------ program constants
RunTestTimeout == 120
CoverageTimeout == 180

\* the futures evaluate may submit: NumTrials of them in Spec, NumRacers in ConcSpec
MaxTrials == IF NumTrials > NumRacers THEN NumTrials ELSE NumRacers
Trials == 1..MaxTrials
Tasks == 1..(((MaxTrials - 1) \div GensPerTask) + 1)
Suffixes == 1..NumSuffixes

\* all_tasks: the trials of one task are consecutive, GensPerTask for each idx
TaskOf(t) == ((t - 1) \div GensPerTask) + 1

\* f"{project}-{bug_id}-" + generate_random_string(8)
TmpFolder(idx, sfx) == <<idx, sfx>>
WsNames == Tasks \X Suffixes

VARIABLES
  pc,                    \* position of each trial's worker
  tmp_folder,            \* workspace name of each trial (<<>> before it is drawn)
  tmpdir,                \* /tmp/<name>: "absent", "empty" (no fixture) or "fixture"
  testChild,             \* the run-test subprocess of each trial
  covChild,              \* the coverage subprocess of each trial
  elapsed,               \* time.time() - while_begin of the current polling loop
  loc,                   \* locals of run_d4j_test
  result,                \* value returned by validate_all_patches, or NoResult
  raised,                \* exception that ended validate_all_patches, or "none"
  all_bug_results_list,  \* evaluate: outcomes in completion order
  collected,             \* futures already yielded by as_completed
  evalpc,                \* position of evaluate
  hist,                  \* per trial: how checkout ended, what the parser said,
                         \* whose stderr the trial scanned for an "error:" line
                         \* and whether a line matched, and the subprocesses and
                         \* files the trial started or wrote before its cleanup
  stderr_txt,            \* /tmp/stderr.txt: the trials whose run-test wrote what it holds
  order,                 \* the trials in the order as_completed yielded them
  results,               \* evaluate: results["detail"], the example_detail of each idx
  est,                   \* get_pass_at_k: its arguments and the value it returned
  spl,                   \* the splice of validate_all_patches: source, patch, start,
                         \* end and the spliced text
  report                 \* evaluate: the corpus-level entries of results

vars == <<pc, tmp_folder, tmpdir, testChild, covChild, elapsed, loc, result,
          raised, all_bug_results_list, collected, evalpc, hist, stderr_txt,
          order, results, est, spl, report>>

NoResult == [none |-> TRUE]
NoHist == [checkout |-> "none", parses |-> "none", scanned |-> {},
           matched |-> FALSE, cmds |-> <<>>]
NoChild == [state |-> "none", hang |-> FALSE, out |-> <<>>]

NoReport == [none |-> TRUE]

NoSpl == [source |-> <<>>, patch |-> <<>>, start |-> 0, end |-> 0,
          done |-> FALSE, out |-> <<>>]

NoEst == [n |-> 0, c |-> 0, k |-> 0, done |-> FALSE, out |-> [num |-> 0, den |-> 1]]

Last(s) == s[Len(s)]
Min(a, b) == IF a < b THEN a ELSE b

\* ------------------------------------------------- what the tools may print
MarkerLine == "Failing tests: 0\n"

\* stdout of `defects4j test` as returned by child.stdout.readlines()
RunTestStdouts ==
  { <<>>,
    <<MarkerLine>>,
    <<"Failing tests: 0">>,
    <<"Failing tests: 1\n", "  - FooTest::testBar\n">>,
    <<MarkerLine, "\n">> }

\* a line "<label>: <value>%"; numeric says whether float() accepts the value
CovLine(lbl, v) == [label |-> lbl, numeric |-> TRUE, value |-> v]
BadLine(lbl) == [label |-> lbl, numeric |-> FALSE, value |-> 0]
OtherLine == BadLine("other")

\* stdout of `defects4j coverage` as returned by child.stdout.readlines()
CovStdouts ==
  { <<>>,
    <<OtherLine>>,
    <<OtherLine, CovLine("Condition coverage", 50)>>,
    <<CovLine("Line coverage", 0), CovLine("Condition coverage", 0)>>,
    <<CovLine("Line coverage", 80), CovLine("Condition coverage", 50)>>,
    <<OtherLine, BadLine("Condition coverage")>> }

\* <workspace>/coverage.xml: missing, not parseable, or its <line> elements
XmlLine(cls, file, number, hits) ==
  [name |-> cls, filename |-> file, number |-> number, hits |-> hits]
Xml(st, ls) == [status |-> st, lines |-> ls]
CoverageXmls ==
  { Xml("absent", <<>>),
    Xml("malformed", <<>>),
    Xml("ok", <<XmlLine("Foo", "Foo.java", "1", 3)>>),
    Xml("ok", <<XmlLine("Foo", "Foo.java", "1", 0)>>) }

\* ------------------------------------------------------------ run_d4j_test
\* lines 343-349
InitLocals ==
  [bugg |-> FALSE, compile_fail |-> FALSE, timed_out |-> FALSE,
   line_coverage |-> 0, condition_coverage |-> 0,
   lines_coverage_info |-> <<>>, syntax_error |-> FALSE]

\* variant of line 357 that reports the build as not failed
SyntaxErrorReturn_NoCompileFail(l) ==
  [l EXCEPT !.bugg = TRUE, !.syntax_error = TRUE]

\* variant of line 357 that reports the trigger stage as passed
SyntaxErrorReturn_NoBugg(l) ==
  [l EXCEPT !.compile_fail = TRUE, !.timed_out = FALSE, !.bugg = FALSE,
            !.syntax_error = TRUE]

\* line 357: return True, False, True, line_coverage, condition_coverage, True, lines_coverage_info
SyntaxErrorReturn(l) ==
  [l EXCEPT !.compile_fail = TRUE, !.timed_out = FALSE, !.bugg = TRUE,
            !.syntax_error = TRUE]

\* variant of line 394 that accepts the marker on any line
TriggerPassed_AnyLine(log) == \E i \in 1..Len(log) : log[i] = MarkerLine

\* line 394: len(log) > 0 and log[-1].decode('utf-8') == "Failing tests: 0\n"
TriggerPassed(log) == Len(log) > 0 /\ Last(log) = MarkerLine

\* variant of line 386 with the operands of the subtraction swapped
TestDeadlinePassed_Swapped(e) == 0 - e > RunTestTimeout

\* line 386: time.time() - while_begin > 120
TestDeadlinePassed(e) == e > RunTestTimeout

\* line 417: time.time() - while_begin > 180
CovDeadlinePassed(e) == e > CoverageTimeout

\* variant of line 376 that records a timeout instead of a build failure
AfterTestNonZero_TimedOut(l) == [l EXCEPT !.timed_out = TRUE]

\* lines 375-385: non-zero exit of run-test (Returncode stays "")
AfterTestNonZero(l) == [l EXCEPT !.compile_fail = TRUE]

\* lines 386-390: run-test killed at the deadline (Returncode stays "")
AfterTestTimeout(l) == [l EXCEPT !.timed_out = TRUE]

\* variant of lines 414-416 that treats the exit as the first loop does (line 376)
AfterCovNonZero_AsBuild(l) == [l EXCEPT !.compile_fail = TRUE, !.bugg = TRUE]

\* lines 414-416 and 417-420: coverage exited non-zero / was killed
AfterCovNonZero(l) == [l EXCEPT !.bugg = TRUE]
AfterCovTimeout(l) == [l EXCEPT !.bugg = TRUE]

\* variant without line 433
ZeroCoverageOverride_None(l) == l

\* variant of line 433 with >= for ==
ZeroCoverageOverride_Always(l) == [l EXCEPT !.bugg = l.bugg \/ l.line_coverage >= 0]

\* line 433: bugg = bugg or line_coverage == 0
ZeroCoverageOverride(l) == [l EXCEPT !.bugg = l.bugg \/ l.line_coverage = 0]

\* lines 426-427, 429-430: split(":")[-1].strip().replace("%", ""); float(.) / 100.0
FloatRaises(line) == ~line.numeric
ParsePercent(line) == line.value

\* lines 437-456
analysis_coverage(xml) ==
  [i \in 1..Len(xml.lines) |->
     <<xml.lines[i].name, xml.lines[i].filename, xml.lines[i].number,
       xml.lines[i].hits > 0>>]

\* lines 423-431: the exception raised while reading the coverage output, or "none"
CovParseRaises(log, xml) ==
  IF Len(log) = 0 THEN "none"
  ELSE IF Len(log) < 2 THEN "IndexError"
  ELSE IF log[Len(log) - 1].label = "Line coverage" /\ FloatRaises(log[Len(log) - 1])
         THEN "ValueError"
  ELSE IF Last(log).label = "Condition coverage" /\ FloatRaises(Last(log))
         THEN "ValueError"
  ELSE IF xml.status = "absent" THEN "FileNotFoundError"
  ELSE IF xml.status = "malformed" THEN "ParseError"
  ELSE "none"

\* lines 423-431 when nothing is raised
CovParse(l, log, xml) ==
  IF Len(log) = 0 THEN l
  ELSE [l EXCEPT
          !.line_coverage =
             IF log[Len(log) - 1].label = "Line coverage"
               THEN ParsePercent(log[Len(log) - 1]) ELSE l.line_coverage,
          !.condition_coverage =
             IF Last(log).label = "Condition coverage"
               THEN ParsePercent(Last(log)) ELSE l.condition_coverage,
          !.lines_coverage_info = analysis_coverage(xml)]

\* ------------------------------------------------------------------ splice
\* a text is a sequence of characters; "\n" is the only character that matters
Chars == {"x", "\n"}
Texts(len) == UNION {[1..m -> Chars] : m \in 0..len}

\* str.split("\n"): the pieces between the newlines, [""] for the empty text
RECURSIVE Split(_)
Split(text) ==
  IF text = <<>> THEN << <<>> >>
  ELSE IF Head(text) = "\n" THEN << <<>> >> \o Split(Tail(text))
  ELSE << <<Head(text)>> \o Head(Split(Tail(text))) >> \o Tail(Split(Tail(text)))

\* "\n".join(lines)
RECURSIVE Join(_)
Join(lines) ==
  IF lines = <<>> THEN <<>>
  ELSE IF Len(lines) = 1 THEN lines[1]
  ELSE lines[1] \o <<"\n">> \o Join(Tail(lines))

\* xs[:i] and xs[i:] of a list, for 0 <= i
Upto(xs, i) == SubSeq(xs, 1, IF i < Len(xs) THEN i ELSE Len(xs))
From(xs, i) == SubSeq(xs, i + 1, Len(xs))

\* variant of line 320 that keeps source[:start+1]
Splice_KeepStartLine(source, patch, start, end) ==
  Join(Upto(Split(source), start + 1) \o Split(patch) \o From(Split(source), end + 1))

\* variant of line 320 that keeps source[end:]
Splice_KeepEndLine(source, patch, start, end) ==
  Join(Upto(Split(source), start) \o Split(patch) \o From(Split(source), end))

\* lines 318-320
Splice(source, patch, start, end) ==
  Join(Upto(Split(source), start) \o Split(patch) \o From(Split(source), end + 1))

\* ----------------------------------------------------------- get_pass_at_k
\* the floats of the source are exact rationals num/den with den > 0
Rat(a, b) == [num |-> a, den |-> b]
RatMul(x, y) == Rat(x.num * y.num, x.den * y.den)
RatSub(x, y) == Rat(x.num * y.den - y.num * x.den, x.den * y.den)
RatEq(x, y) == x.num * y.den = y.num * x.den
RatLeq(x, y) == x.num * y.den <= y.num * x.den
RatLess(x, y) == x.num * y.den < y.num * x.den

\* variant of line 293 over np.arange(lo + 1, hi + 2)
RECURSIVE ProdOneMinus_Shifted(_, _, _)
ProdOneMinus_Shifted(lo, hi, k) ==
  IF lo > hi THEN Rat(1, 1)
  ELSE RatMul(RatSub(Rat(1, 1), Rat(k, lo + 1)), ProdOneMinus_Shifted(lo + 1, hi, k))

\* line 293: np.prod(1.0 - k / np.arange(lo, hi + 1))
RECURSIVE ProdOneMinus(_, _, _)
ProdOneMinus(lo, hi, k) ==
  IF lo > hi THEN Rat(1, 1)
  ELSE RatMul(RatSub(Rat(1, 1), Rat(k, lo)), ProdOneMinus(lo + 1, hi, k))

\* variant of line 292 with <= for <
get_pass_at_k_Leq(n, c, k) ==
  IF n - c <= k THEN Rat(1, 1)
  ELSE RatSub(Rat(1, 1), ProdOneMinus(n - c + 1, n, k))

\* variant without line 292
get_pass_at_k_NoBranch(n, c, k) ==
  RatSub(Rat(1, 1), ProdOneMinus(n - c + 1, n, k))

\* variant of line 292 returning 0.0
get_pass_at_k_Zero(n, c, k) ==
  IF n - c < k THEN Rat(0, 1)
  ELSE RatSub(Rat(1, 1), ProdOneMinus(n - c + 1, n, k))

\* lines 291-293
get_pass_at_k(n, c, k) ==
  IF n - c < k THEN Rat(1, 1)
  ELSE RatSub(Rat(1, 1), ProdOneMinus(n - c + 1, n, k))

\* code_ujb_mbpp.py lines 83-87: estimate_pass_at_k.estimator
mbpp_estimator(n, c, k) ==
  IF n - c < k THEN Rat(1, 1)
  ELSE RatSub(Rat(1, 1), ProdOneMinus(n - c + 1, n, k))

\* code_ujb_multiple_java.py lines 140-146: MultipleJava.evaluate.estimator
multiple_java_estimator(n, c, k) ==
  IF n - c < k THEN Rat(1, 1)
  ELSE RatSub(Rat(1, 1), ProdOneMinus(n - c + 1, n, k))

\* code_ujb_multiple_python.py lines 119-125: the same estimator once more
multiple_python_estimator(n, c, k) ==
  IF n - c < k THEN Rat(1, 1)
  ELSE RatSub(Rat(1, 1), ProdOneMinus(n - c + 1, n, k))

\* ---------------------------------------------------- validate_all_patches
\* lines 329-340 (project and bug_id are fixed by idx and left out)
Outcome(idx, l) ==
  [idx |-> idx,
   pass_syntax |-> ~l.syntax_error,
   pass_compile |-> ~l.compile_fail,
   pass_trigger |-> ~l.bugg,
   line_coverage |-> l.line_coverage,
   condition_coverage |-> l.condition_coverage,
   timed_out |-> l.timed_out,
   lines_coverage_info |-> l.lines_coverage_info]

\* line 327 then 329-340: rm -rf of the workspace, then the Outcome is returned
\* (the frame of run_d4j_test is gone: its locals and clock are reset)
Return(t, l) ==
  /\ tmpdir' = [tmpdir EXCEPT ![tmp_folder[t]] = "absent"]
  /\ result' = [result EXCEPT ![t] = Outcome(TaskOf(t), l)]
  /\ loc' = [loc EXCEPT ![t] = InitLocals]
  /\ elapsed' = [elapsed EXCEPT ![t] = 0]
  /\ pc' = [pc EXCEPT ![t] = "done"]
  /\ UNCHANGED raised

\* an exception leaves validate_all_patches: nothing after the raising line runs
Raise(t, exc) ==
  /\ raised' = [raised EXCEPT ![t] = exc]
  /\ loc' = [loc EXCEPT ![t] = InitLocals]
  /\ elapsed' = [elapsed EXCEPT ![t] = 0]
  /\ pc' = [pc EXCEPT ![t] = "raised"]
  /\ UNCHANGED <<tmpdir, result>>

\* lines 314-316: rm -rf of the workspace name, then defects4j checkout
CheckoutCmds == <<"rm", "checkout">>

\* line 322: save_file of the spliced source
SaveCmds == <<"save">>

\* lines 361-366: defects4j test
TestCmds == <<"test">>

\* variant of lines 400-406 that launches before it writes increment.txt
CoverageCmds_LaunchFirst == <<"coverage", "increment">>

\* lines 400-406: increment.txt is written, then defects4j coverage is launched
CoverageCmds == <<"increment", "coverage">>

\* future_tasks: the trials evaluate submitted to the pool (lines 199-202)
Submitted == {t \in Trials : pc[t] # "unsubmitted"}

Busy == {t \in Trials : pc[t] \in {"checked_out", "poll_test", "poll_cov"}}

\* lines 313-316: a pool worker takes the trial, draws the name, rm -rf, checkout
\* (checkout leaves the fixture, or fails leaving an empty directory or none)
Start(t) ==
  /\ pc[t] = "queued"
  /\ Cardinality(Busy) < PoolWorkers
  /\ \E sfx \in Suffixes, co \in {"fixture", "empty", "absent"} :
       /\ tmp_folder' = [tmp_folder EXCEPT ![t] = TmpFolder(TaskOf(t), sfx)]
       /\ tmpdir' = [tmpdir EXCEPT ![TmpFolder(TaskOf(t), sfx)] = co]
       /\ hist' = [hist EXCEPT ![t].checkout = IF co = "fixture" THEN "ok" ELSE "failed",
                               ![t].cmds = CheckoutCmds]
  /\ pc' = [pc EXCEPT ![t] = "checked_out"]
  /\ UNCHANGED <<testChild, covChild, elapsed, loc, result, raised,
                 all_bug_results_list, collected, evalpc, stderr_txt, order, results, est, spl, report>>

\* lines 318-322 and 342-367: splice, save_file (open() needs the directory of
\* location, which only the fixture provides), syntax check, launch of run-test
\* with its stderr sent to /tmp/stderr.txt, which open(.., "wb") truncates
SaveAndLaunch(t) ==
  /\ pc[t] = "checked_out"
  /\ IF tmpdir[tmp_folder[t]] # "fixture"
       THEN /\ Raise(t, "FileNotFoundError")
            /\ UNCHANGED <<testChild, hist, stderr_txt>>
       ELSE \E parses \in BOOLEAN :
              IF ~parses
                THEN /\ Return(t, SyntaxErrorReturn(InitLocals))
                     /\ hist' = [hist EXCEPT ![t].parses = "no",
                                             ![t].cmds = hist[t].cmds \o SaveCmds]
                     /\ UNCHANGED <<testChild, stderr_txt>>
                ELSE /\ hist' = [hist EXCEPT ![t].parses = "yes",
                                             ![t].cmds = hist[t].cmds \o SaveCmds \o TestCmds]
                     /\ stderr_txt' = {}
                     /\ \E h \in BOOLEAN :
                          testChild' = [testChild EXCEPT ![t] =
                             [state |-> "running", hang |-> h, out |-> <<>>]]
                     /\ elapsed' = [elapsed EXCEPT ![t] = 0]
                     /\ loc' = [loc EXCEPT ![t] = InitLocals]
                     /\ pc' = [pc EXCEPT ![t] = "poll_test"]
                     /\ UNCHANGED <<tmpdir, result, raised>>
  /\ UNCHANGED <<tmp_folder, covChild, all_bug_results_list, collected, evalpc,
                 order, results, est, spl, report>>

\* the run-test process ends by itself with some exit status and output; what
\* it wrote to its stderr is in the file its descriptor refers to
TestExit(t) ==
  /\ testChild[t].state = "running"
  /\ ~testChild[t].hang
  /\ \/ \E o \in RunTestStdouts :
          testChild' = [testChild EXCEPT ![t].state = "exit0", ![t].out = o]
     \/ testChild' = [testChild EXCEPT ![t].state = "exitN"]
  /\ stderr_txt' = stderr_txt \cup {t}
  /\ UNCHANGED <<pc, tmp_folder, tmpdir, covChild, elapsed, loc, result, raised,
                 all_bug_results_list, collected, evalpc, hist, order, results, est, spl, report>>

\* lines 368-406: one pass of the first polling loop and what follows its break
\* (after a non-zero exit a line of /tmp/stderr.txt matches ":\serror:\s" or none does)
PollTest(t) ==
  /\ pc[t] = "poll_test"
  /\ CASE testChild[t].state = "exit0" ->
            IF ~TriggerPassed(testChild[t].out)
              THEN /\ Return(t, ZeroCoverageOverride([loc[t] EXCEPT !.bugg = TRUE]))
                   /\ UNCHANGED <<testChild, covChild, hist>>
              ELSE IF tmpdir[tmp_folder[t]] = "absent"
                THEN /\ Raise(t, "FileNotFoundError")
                     /\ UNCHANGED <<testChild, covChild, hist>>
                ELSE /\ \E h \in BOOLEAN :
                          covChild' = [covChild EXCEPT ![t] =
                             [state |-> "running", hang |-> h, out |-> <<>>,
                              xml |-> Xml("absent", <<>>)]]
                     /\ hist' = [hist EXCEPT ![t].cmds = hist[t].cmds \o CoverageCmds]
                     /\ elapsed' = [elapsed EXCEPT ![t] = 0]
                     /\ pc' = [pc EXCEPT ![t] = "poll_cov"]
                     /\ UNCHANGED <<testChild, tmpdir, result, raised, loc>>
       [] testChild[t].state = "exitN" ->
            /\ \E m \in BOOLEAN :
                 hist' = [hist EXCEPT ![t].scanned = stderr_txt, ![t].matched = m]
            /\ Return(t, ZeroCoverageOverride(
                           [AfterTestNonZero(loc[t]) EXCEPT !.bugg = TRUE]))
            /\ UNCHANGED <<testChild, covChild>>
       [] testChild[t].state = "running" /\ TestDeadlinePassed(elapsed[t]) ->
            /\ testChild' = [testChild EXCEPT ![t].state = "signalled"]
            /\ Return(t, ZeroCoverageOverride(
                           [AfterTestTimeout(loc[t]) EXCEPT !.bugg = TRUE]))
            /\ UNCHANGED <<covChild, hist>>
       [] OTHER ->
            /\ elapsed' = [elapsed EXCEPT ![t] = Min(elapsed[t] + PollTick, ClockCap)]
            /\ UNCHANGED <<pc, tmpdir, testChild, covChild, loc, result, raised, hist>>
  /\ UNCHANGED <<tmp_folder, all_bug_results_list, collected, evalpc, stderr_txt,
                 order, results, est, spl, report>>

\* the coverage process ends by itself with some exit status, output and report
CovExit(t) ==
  /\ covChild[t].state = "running"
  /\ ~covChild[t].hang
  /\ \/ \E o \in CovStdouts, x \in CoverageXmls :
          covChild' = [covChild EXCEPT ![t].state = "exit0", ![t].out = o,
                                       ![t].xml = x]
     \/ covChild' = [covChild EXCEPT ![t].state = "exitN"]
  /\ UNCHANGED <<pc, tmp_folder, tmpdir, testChild, elapsed, loc, result, raised,
                 all_bug_results_list, collected, evalpc, hist, stderr_txt, order, results, est, spl, report>>

\* coverage.xml as analysis_coverage finds it: gone when the workspace is gone
ReportOf(t) ==
  IF tmpdir[tmp_folder[t]] = "absent" THEN Xml("absent", <<>>) ELSE covChild[t].xml

\* lines 409-434: one pass of the second polling loop and what follows its break
PollCov(t) ==
  /\ pc[t] = "poll_cov"
  /\ CASE covChild[t].state = "exit0" ->
            /\ IF CovParseRaises(covChild[t].out, ReportOf(t)) # "none"
                 THEN Raise(t, CovParseRaises(covChild[t].out, ReportOf(t)))
                 ELSE Return(t, ZeroCoverageOverride(
                                  CovParse(loc[t], covChild[t].out, ReportOf(t))))
            /\ UNCHANGED covChild
       [] covChild[t].state = "exitN" ->
            /\ Return(t, ZeroCoverageOverride(AfterCovNonZero(loc[t])))
            /\ UNCHANGED covChild
       [] covChild[t].state = "running" /\ CovDeadlinePassed(elapsed[t]) ->
            /\ covChild' = [covChild EXCEPT ![t].state = "signalled"]
            /\ Return(t, ZeroCoverageOverride(AfterCovTimeout(loc[t])))
       [] OTHER ->
            /\ elapsed' = [elapsed EXCEPT ![t] = Min(elapsed[t] + PollTick, ClockCap)]
            /\ UNCHANGED <<pc, tmpdir, covChild, loc, result, raised>>
  /\ UNCHANGED <<tmp_folder, testChild, all_bug_results_list, collected, evalpc,
                 hist, stderr_txt, order, results, est, spl, report>>

\* a process group that received SIGTERM goes away (it may also stay: no fairness)
TestDies(t) ==
  /\ testChild[t].state = "signalled"
  /\ testChild' = [testChild EXCEPT ![t].state = "dead"]
  /\ UNCHANGED <<pc, tmp_folder, tmpdir, covChild, elapsed, loc, result, raised,
                 all_bug_results_list, collected, evalpc, hist, stderr_txt, order, results, est, spl, report>>

CovDies(t) ==
  /\ covChild[t].state = "signalled"
  /\ covChild' = [covChild EXCEPT ![t].state = "dead"]
  /\ UNCHANGED <<pc, tmp_folder, tmpdir, testChild, elapsed, loc, result, raised,
                 all_bug_results_list, collected, evalpc, hist, stderr_txt, order, results, est, spl, report>>

\* ------------------------------------------------- CodeUJBTestGen.evaluate
\* lines 205-208: as_completed yields a finished future; future.result() returns
\* the Outcome or re-raises the exception of validate_all_patches
Collect(t) ==
  /\ evalpc = "collecting"
  /\ t \notin collected
  /\ pc[t] \in {"done", "raised"}
  /\ collected' = collected \cup {t}
  /\ order' = Append(order, t)
  /\ IF pc[t] = "raised"
       THEN /\ evalpc' = "raised"
            /\ UNCHANGED all_bug_results_list
       ELSE /\ all_bug_results_list' = Append(all_bug_results_list, result[t])
            /\ evalpc' = IF collected' = Submitted THEN "collected" ELSE "collecting"
  /\ UNCHANGED <<pc, tmp_folder, tmpdir, testChild, covChild, elapsed, loc,
                 result, raised, hist, stderr_txt, results, est, spl, report>>

\* lines 210-214: the Outcomes of one idx, in the order they were appended
all_bug_results_dict(idx) ==
  SelectSeq(all_bug_results_list, LAMBDA r : r.idx = idx)

\* lines 216-217
keys_list == {all_bug_results_list[i].idx : i \in 1..Len(all_bug_results_list)}

\* lines 221-224 (total_tokens and the pass@t entries are left out)
NewDetail ==
  [total |-> 0, pass_syntax |-> 0, pass_compile |-> 0, pass_trigger |-> 0,
   timed_out |-> 0, line_coverage |-> <<>>, condition_coverage |-> <<>>,
   diff_coverage |-> {}]

\* variant of lines 236-237 that leaves out the trials that did not pass
FoldDetail_PassingOnly(d, detail) ==
  [total |-> d.total + 1,
   pass_syntax |-> d.pass_syntax + (IF detail.pass_syntax THEN 1 ELSE 0),
   pass_compile |-> d.pass_compile + (IF detail.pass_compile THEN 1 ELSE 0),
   pass_trigger |-> d.pass_trigger + (IF detail.pass_trigger THEN 1 ELSE 0),
   timed_out |-> d.timed_out + (IF detail.timed_out THEN 1 ELSE 0),
   line_coverage |->
     IF detail.pass_trigger THEN Append(d.line_coverage, detail.line_coverage)
     ELSE d.line_coverage,
   condition_coverage |-> Append(d.condition_coverage, detail.condition_coverage),
   diff_coverage |->
     d.diff_coverage \cup
       {detail.lines_coverage_info[i] : i \in 1..Len(detail.lines_coverage_info)}]

\* variant of lines 238-239 in which a record replaces the earlier records of
\* the same (class, file, line)
FoldDetail_LastWins(d, detail) ==
  [total |-> d.total + 1,
   pass_syntax |-> d.pass_syntax + (IF detail.pass_syntax THEN 1 ELSE 0),
   pass_compile |-> d.pass_compile + (IF detail.pass_compile THEN 1 ELSE 0),
   pass_trigger |-> d.pass_trigger + (IF detail.pass_trigger THEN 1 ELSE 0),
   timed_out |-> d.timed_out + (IF detail.timed_out THEN 1 ELSE 0),
   line_coverage |-> Append(d.line_coverage, detail.line_coverage),
   condition_coverage |-> Append(d.condition_coverage, detail.condition_coverage),
   diff_coverage |->
     {x \in d.diff_coverage :
        \A i \in 1..Len(detail.lines_coverage_info) :
          <<x[1], x[2], x[3]>> # <<detail.lines_coverage_info[i][1],
                                   detail.lines_coverage_info[i][2],
                                   detail.lines_coverage_info[i][3]>>}
       \cup {detail.lines_coverage_info[i] : i \in 1..Len(detail.lines_coverage_info)}]

\* lines 227-239: one pass of the loop over bug_results
FoldDetail(d, detail) ==
  [total |-> d.total + 1,
   pass_syntax |-> d.pass_syntax + (IF detail.pass_syntax THEN 1 ELSE 0),
   pass_compile |-> d.pass_compile + (IF detail.pass_compile THEN 1 ELSE 0),
   pass_trigger |-> d.pass_trigger + (IF detail.pass_trigger THEN 1 ELSE 0),
   timed_out |-> d.timed_out + (IF detail.timed_out THEN 1 ELSE 0),
   line_coverage |-> Append(d.line_coverage, detail.line_coverage),
   condition_coverage |-> Append(d.condition_coverage, detail.condition_coverage),
   diff_coverage |->
     d.diff_coverage \cup
       {detail.lines_coverage_info[i] : i \in 1..Len(detail.lines_coverage_info)}]

\* lines 226-239
RECURSIVE FoldResults(_, _)
FoldResults(d, bug_results) ==
  IF bug_results = <<>> THEN d
  ELSE FoldResults(FoldDetail(d, Head(bug_results)), Tail(bug_results))

RECURSIVE SumSeq(_)
SumSeq(xs) == IF xs = <<>> THEN 0 ELSE Head(xs) + SumSeq(Tail(xs))

\* lines 257-258: np.mean of a non-empty list
Mean(xs) == Rat(SumSeq(xs), Len(xs))

\* lines 259-264: 0 for no records, else the records with x[-1] == True over all
DiffCoverage(lines) ==
  IF lines = {} THEN Rat(0, 1)
  ELSE Rat(Cardinality({x \in lines : x[4]}), Cardinality(lines))

\* line 243
PassKs == {1, 5, 10, 20, 100}

\* variant of line 244 that also skips a task with exactly k trials
PassAtK_Strict(total, count) ==
  [k \in {j \in PassKs : total > j} |-> get_pass_at_k(total, count, k)]

\* lines 243-245 for one stage count
PassAtK(total, count) ==
  [k \in {j \in PassKs : total >= j} |-> get_pass_at_k(total, count, k)]

\* lines 219-267: the example_detail stored in results["detail"][idx]
example_detail(bug_results) ==
  [total |-> FoldResults(NewDetail, bug_results).total,
   pass_syntax |->
     [count |-> FoldResults(NewDetail, bug_results).pass_syntax,
      pass_at_k |-> PassAtK(FoldResults(NewDetail, bug_results).total,
                            FoldResults(NewDetail, bug_results).pass_syntax)],
   pass_compile |->
     [count |-> FoldResults(NewDetail, bug_results).pass_compile,
      pass_at_k |-> PassAtK(FoldResults(NewDetail, bug_results).total,
                            FoldResults(NewDetail, bug_results).pass_compile)],
   pass_trigger |->
     [count |-> FoldResults(NewDetail, bug_results).pass_trigger,
      pass_at_k |-> PassAtK(FoldResults(NewDetail, bug_results).total,
                            FoldResults(NewDetail, bug_results).pass_trigger)],
   timed_out |-> FoldResults(NewDetail, bug_results).timed_out,
   line_coverage |-> Mean(FoldResults(NewDetail, bug_results).line_coverage),
   condition_coverage |->
     Mean(FoldResults(NewDetail, bug_results).condition_coverage),
   diff_coverage |->
     DiffCoverage(FoldResults(NewDetail, bug_results).diff_coverage)]

\* keys_list after keys_list.sort()
RECURSIVE SortedKeys(_)
SortedKeys(keys) ==
  IF keys = {} THEN <<>>
  ELSE <<CHOOSE m \in keys : \A x \in keys : m <= x>>
         \o SortedKeys(keys \ {CHOOSE m \in keys : \A x \in keys : m <= x})

\* float addition and np.mean of a non-empty list of floats, in lowest terms
RECURSIVE Gcd(_, _)
Gcd(a, b) == IF b = 0 THEN a ELSE Gcd(b, a % b)
Norm(x) ==
  IF x.num = 0 THEN Rat(0, 1)
  ELSE Rat(x.num \div Gcd(IF x.num < 0 THEN -x.num ELSE x.num, x.den),
           x.den \div Gcd(IF x.num < 0 THEN -x.num ELSE x.num, x.den))
RatAdd(x, y) == Norm(Rat(x.num * y.den + y.num * x.den, x.den * y.den))
RECURSIVE RatSum(_)
RatSum(xs) == IF xs = <<>> THEN Rat(0, 1) ELSE RatAdd(Head(xs), RatSum(Tail(xs)))
MeanRat(xs) == Norm(RatMul(RatSum(xs), Rat(1, Len(xs))))

\* lines 246-248: results[key]["pass@k-k"], the values appended in key order by
\* the tasks whose example_detail has the entry
PassAtKList(details, key, k) ==
  [i \in 1..Len(SelectSeq(SortedKeys(DOMAIN details),
                          LAMBDA idx : k \in DOMAIN details[idx][key].pass_at_k)) |->
     details[SelectSeq(SortedKeys(DOMAIN details),
                       LAMBDA idx : k \in DOMAIN details[idx][key].pass_at_k)[i]]
       [key].pass_at_k[k]]

\* lines 269-274 and 280-284 for one stage: the number of tasks with a non-zero
\* count, and the mean of every pass@k-k list that exists
StageReport(details, key) ==
  [count |-> Cardinality({idx \in DOMAIN details : details[idx][key].count > 0}),
   pass_at_k |->
     [k \in {j \in PassKs : PassAtKList(details, key, j) # <<>>} |->
        MeanRat(PassAtKList(details, key, k))]]

RECURSIVE SumSet(_, _)
SumSet(f, keys) ==
  IF keys = {} THEN 0
  ELSE f[CHOOSE x \in keys : TRUE] + SumSet(f, keys \ {CHOOSE x \in keys : TRUE})

\* lines 268-287: the corpus-level entries of results
Report(details) ==
  [total |-> Cardinality(DOMAIN details),
   pass_syntax |-> StageReport(details, "pass_syntax"),
   pass_compile |-> StageReport(details, "pass_compile"),
   pass_trigger |-> StageReport(details, "pass_trigger"),
   timed_out |-> SumSet([idx \in DOMAIN details |-> details[idx].timed_out],
                        DOMAIN details),
   line_coverage |->
     MeanRat([i \in 1..Cardinality(DOMAIN details) |->
                details[SortedKeys(DOMAIN details)[i]].line_coverage]),
   condition_coverage |->
     MeanRat([i \in 1..Cardinality(DOMAIN details) |->
                details[SortedKeys(DOMAIN details)[i]].condition_coverage]),
   diff_coverage |->
     MeanRat([i \in 1..Cardinality(DOMAIN details) |->
                details[SortedKeys(DOMAIN details)[i]].diff_coverage])]

\* lines 210-287: every Outcome is collected; the per-idx details and the
\* corpus-level entries are built
Aggregate ==
  /\ evalpc = "collected"
  /\ results' = [idx \in keys_list |-> example_detail(all_bug_results_dict(idx))]
  /\ report' = Report([idx \in keys_list |-> example_detail(all_bug_results_dict(idx))])
  /\ evalpc' = "returned"
  /\ UNCHANGED <<pc, tmp_folder, tmpdir, testChild, covChild, elapsed, loc, result,
                 raised, all_bug_results_list, collected, hist, stderr_txt, order,
                 est, spl>>

\* ------------------------------------------------------------ specification
\* evaluate has submitted the first batch trials of all_tasks
InitBatch(batch) ==
  /\ pc = [t \in Trials |-> IF t <= batch THEN "queued" ELSE "unsubmitted"]
  /\ tmp_folder = [t \in Trials |-> <<>>]
  /\ tmpdir = [w \in WsNames |-> "absent"]
  /\ testChild = [t \in Trials |-> NoChild]
  /\ covChild = [t \in Trials |-> NoChild]
  /\ elapsed = [t \in Trials |-> 0]
  /\ loc = [t \in Trials |-> InitLocals]
  /\ result = [t \in Trials |-> NoResult]
  /\ raised = [t \in Trials |-> "none"]
  /\ all_bug_results_list = <<>>
  /\ collected = {}
  /\ evalpc = "collecting"
  /\ hist = [t \in Trials |-> NoHist]
  /\ stderr_txt = {}
  /\ order = <<>>
  /\ results = <<>>
  /\ est = NoEst
  /\ spl = NoSpl
  /\ report = NoReport

Init == InitBatch(NumTrials)

TrialStep(t) == Start(t) \/ SaveAndLaunch(t) \/ PollTest(t) \/ PollCov(t)

Next ==
  \/ \E t \in Trials :
       \/ Start(t)
       \/ SaveAndLaunch(t)
       \/ TestExit(t)
       \/ PollTest(t)
       \/ CovExit(t)
       \/ PollCov(t)
       \/ TestDies(t)
       \/ CovDies(t)
       \/ Collect(t)
  \/ Aggregate

Spec == Init /\ [][Next]_vars

\* the worker processes keep running: a worker that can take a step takes one
FairSpec == Spec /\ \A t \in Trials : WF_vars(TrialStep(t))

\* get_pass_at_k applied to one triple of integer arguments
Estimate ==
  /\ ~est.done
  /\ est.n >= 1
  /\ est' = [est EXCEPT !.out = get_pass_at_k(est.n, est.c, est.k), !.done = TRUE]
  /\ UNCHANGED <<pc, tmp_folder, tmpdir, testChild, covChild, elapsed, loc, result,
                 raised, all_bug_results_list, collected, evalpc, hist, stderr_txt,
                 order, results, spl, report>>

\* no trial is submitted; the arguments are n >= 1, 0 <= c <= n, k >= 1
EstInit ==
  /\ pc = [t \in Trials |-> "unsubmitted"]
  /\ tmp_folder = [t \in Trials |-> <<>>]
  /\ tmpdir = [w \in WsNames |-> "absent"]
  /\ testChild = [t \in Trials |-> NoChild]
  /\ covChild = [t \in Trials |-> NoChild]
  /\ elapsed = [t \in Trials |-> 0]
  /\ loc = [t \in Trials |-> InitLocals]
  /\ result = [t \in Trials |-> NoResult]
  /\ raised = [t \in Trials |-> "none"]
  /\ all_bug_results_list = <<>>
  /\ collected = {}
  /\ evalpc = "collecting"
  /\ hist = [t \in Trials |-> NoHist]
  /\ stderr_txt = {}
  /\ order = <<>>
  /\ results = <<>>
  /\ spl = NoSpl
  /\ report = NoReport
  /\ \E n \in 1..MaxN, c \in 0..MaxN, k \in 1..MaxK :
       /\ c <= n
       /\ est = [NoEst EXCEPT !.n = n, !.c = c, !.k = k]

EstNext == Estimate
EstSpec == EstInit /\ [][EstNext]_vars

\* the Outcomes run_d4j_test can return for a trial of task idx: the syntax,
\* build, run-test timeout and coverage failures, and every clean coverage run
AggOutcomes(idx) ==
  { Outcome(idx, SyntaxErrorReturn(InitLocals)),
    Outcome(idx, ZeroCoverageOverride([AfterTestNonZero(InitLocals) EXCEPT !.bugg = TRUE])),
    Outcome(idx, ZeroCoverageOverride([AfterTestTimeout(InitLocals) EXCEPT !.bugg = TRUE])),
    Outcome(idx, ZeroCoverageOverride(AfterCovNonZero(InitLocals))) }
  \cup
  { Outcome(idx, ZeroCoverageOverride(CovParse(InitLocals, o, x))) :
      o \in {<<CovLine("Line coverage", 80), CovLine("Condition coverage", 50)>>},
      x \in {y \in CoverageXmls : y.status = "ok"} }

AggLists(len) == [1..len -> UNION {AggOutcomes(idx) : idx \in 1..NumAggTasks}]

\* evaluate after the pool is drained: all_bug_results_list holds the Outcomes
\* in some completion order
AggInit ==
  /\ pc = [t \in Trials |-> "unsubmitted"]
  /\ tmp_folder = [t \in Trials |-> <<>>]
  /\ tmpdir = [w \in WsNames |-> "absent"]
  /\ testChild = [t \in Trials |-> NoChild]
  /\ covChild = [t \in Trials |-> NoChild]
  /\ elapsed = [t \in Trials |-> 0]
  /\ loc = [t \in Trials |-> InitLocals]
  /\ result = [t \in Trials |-> NoResult]
  /\ raised = [t \in Trials |-> "none"]
  /\ \E len \in 1..MaxResults : all_bug_results_list \in AggLists(len)
  /\ collected = {}
  /\ evalpc = "collected"
  /\ hist = [t \in Trials |-> NoHist]
  /\ stderr_txt = {}
  /\ order = <<>>
  /\ results = <<>>
  /\ est = NoEst
  /\ spl = NoSpl
  /\ report = NoReport

AggNext == Aggregate
AggSpec == AggInit /\ [][AggNext]_vars

\* the splice of validate_all_patches applied to one source, patch and span
DoSplice ==
  /\ ~spl.done
  /\ spl.source # <<>>
  /\ spl' = [spl EXCEPT !.out = Splice(spl.source, spl.patch, spl.start, spl.end),
                        !.done = TRUE]
  /\ UNCHANGED <<pc, tmp_folder, tmpdir, testChild, covChild, elapsed, loc, result,
                 raised, all_bug_results_list, collected, evalpc, hist, stderr_txt,
                 order, results, est, report>>

\* no trial is submitted; the span satisfies 0 <= start <= end < number of lines
SpliceInit ==
  /\ pc = [t \in Trials |-> "unsubmitted"]
  /\ tmp_folder = [t \in Trials |-> <<>>]
  /\ tmpdir = [w \in WsNames |-> "absent"]
  /\ testChild = [t \in Trials |-> NoChild]
  /\ covChild = [t \in Trials |-> NoChild]
  /\ elapsed = [t \in Trials |-> 0]
  /\ loc = [t \in Trials |-> InitLocals]
  /\ result = [t \in Trials |-> NoResult]
  /\ raised = [t \in Trials |-> "none"]
  /\ all_bug_results_list = <<>>
  /\ collected = {}
  /\ evalpc = "collecting"
  /\ hist = [t \in Trials |-> NoHist]
  /\ stderr_txt = {}
  /\ order = <<>>
  /\ results = <<>>
  /\ est = NoEst
  /\ report = NoReport
  /\ \E source \in Texts(MaxSourceLen) \ {<<>>}, patch \in Texts(MaxPatchLen) :
       \E start \in 0..(Len(Split(source)) - 1) :
         \E end \in start..(Len(Split(source)) - 1) :
           spl = [NoSpl EXCEPT !.source = source, !.patch = patch,
                               !.start = start, !.end = end]

SpliceNext == DoSplice
SpliceSpec == SpliceInit /\ [][SpliceNext]_vars

\* the Outcome of a trial that passed every stage, and of one whose build failed
PassOutcome(idx) ==
  Outcome(idx, ZeroCoverageOverride(
                 CovParse(InitLocals,
                          <<CovLine("Line coverage", 80), CovLine("Condition coverage", 50)>>,
                          Xml("ok", <<XmlLine("Foo", "Foo.java", "1", 3)>>))))
FailOutcome(idx) ==
  Outcome(idx, ZeroCoverageOverride([AfterTestNonZero(InitLocals) EXCEPT !.bugg = TRUE]))

\* the Outcomes of tasks idx..NumAggTasks: ns[i] trials of task i, cs[i] passing
RECURSIVE BulkList(_, _, _)
BulkList(ns, cs, idx) ==
  IF idx > NumAggTasks THEN <<>>
  ELSE [i \in 1..ns[idx] |-> IF i <= cs[idx] THEN PassOutcome(idx) ELSE FailOutcome(idx)]
         \o BulkList(ns, cs, idx + 1)

\* evaluate after the pool is drained, with up to MaxPerTask trials for a task
BulkInit ==
  /\ pc = [t \in Trials |-> "unsubmitted"]
  /\ tmp_folder = [t \in Trials |-> <<>>]
  /\ tmpdir = [w \in WsNames |-> "absent"]
  /\ testChild = [t \in Trials |-> NoChild]
  /\ covChild = [t \in Trials |-> NoChild]
  /\ elapsed = [t \in Trials |-> 0]
  /\ loc = [t \in Trials |-> InitLocals]
  /\ result = [t \in Trials |-> NoResult]
  /\ raised = [t \in Trials |-> "none"]
  /\ \E ns \in [1..NumAggTasks -> 0..MaxPerTask], cs \in [1..NumAggTasks -> 0..MaxPerTask] :
       /\ \A i \in 1..NumAggTasks : cs[i] <= ns[i]
       /\ \E i \in 1..NumAggTasks : ns[i] > 0
       /\ all_bug_results_list = BulkList(ns, cs, 1)
  /\ collected = {}
  /\ evalpc = "collected"
  /\ hist = [t \in Trials |-> NoHist]
  /\ stderr_txt = {}
  /\ order = <<>>
  /\ results = <<>>
  /\ est = NoEst
  /\ spl = NoSpl
  /\ report = NoReport

BulkNext == Aggregate
BulkSpec == BulkInit /\ [][BulkNext]_vars

\* a batch of NumRacers trials competing for the pool
ConcInit == InitBatch(NumRacers)
ConcSpec == ConcInit /\ [][Next]_vars

\* ------------------------------------------------------------------ claims
Done(t) == pc[t] = "done"
Ended(t) == pc[t] \in {"done", "raised"}
Killed(child) == child.state \in {"signalled", "dead"}

\* C1: a trial whose spliced source fails to parse has returned, without
\* raising, an Outcome with pass_syntax, pass_compile, pass_trigger and
\* timed_out all false, both coverages 0 and no coverage records.
C1_SyntaxShortCircuit ==
  \A t \in Trials :
    hist[t].parses = "no" =>
      /\ Done(t)
      /\ raised[t] = "none"
      /\ result[t] = [idx |-> TaskOf(t), pass_syntax |-> FALSE,
                      pass_compile |-> FALSE, pass_trigger |-> FALSE,
                      line_coverage |-> 0, condition_coverage |-> 0,
                      timed_out |-> FALSE, lines_coverage_info |-> <<>>]

C1_Witness ==
  \E t \in Trials : hist[t].parses = "no" /\ Done(t) /\ ~result[t].pass_syntax

\* C2: whatever the tools do, every trial returns an Outcome: no trial ends
\* in an exception and evaluate's future.result() never re-raises one.
C2_AlwaysOutcome ==
  /\ \A t \in Trials : pc[t] # "raised" /\ raised[t] = "none"
  /\ evalpc # "raised"

\* C3: a trial polling a run-test process that never exits eventually returns
\* an Outcome with timed_out = true, and the process group is signalled only
\* once more than RunTestTimeout seconds have elapsed.
C3_TimeoutLiveness ==
  /\ \A t \in Trials :
       (pc[t] = "poll_test" /\ testChild[t].hang)
         ~> (Done(t) /\ result[t].timed_out /\ Killed(testChild[t]))
  /\ [][\A t \in Trials :
          (testChild[t].state = "running" /\ testChild'[t].state = "signalled")
            => elapsed[t] > 120]_vars

C3_Witness ==
  \E t \in Trials :
    testChild[t].hang /\ Killed(testChild[t]) /\ Done(t) /\ result[t].timed_out

\* C4: if the run-test command or the coverage command of a trial was killed
\* at its deadline, the Outcome has timed_out = true and pass_trigger = false.
C4_KillRecorded ==
  \A t \in Trials :
    (Done(t) /\ (Killed(testChild[t]) \/ Killed(covChild[t]))) =>
      (result[t].timed_out /\ ~result[t].pass_trigger)

\* C5: if the run-test command of a trial was killed at its deadline, the
\* Outcome has pass_compile = false and timed_out = true.
C5_TimeoutIsBuildFailure ==
  \A t \in Trials :
    (Done(t) /\ Killed(testChild[t])) =>
      (~result[t].pass_compile /\ result[t].timed_out)

\* C6: in every Outcome pass_trigger = true implies line_coverage > 0; a trial
\* whose trigger test succeeded and whose coverage run measured 0 is returned
\* with pass_trigger = false.
C6_ZeroCoverageOverride ==
  \A t \in Trials :
    Done(t) =>
      /\ result[t].pass_trigger => result[t].line_coverage > 0
      /\ (covChild[t].state = "exit0" /\ result[t].line_coverage = 0)
           => ~result[t].pass_trigger

C6_Witness ==
  \E t \in Trials :
    /\ Done(t)
    /\ covChild[t].state = "exit0"
    /\ Len(covChild[t].out) = 2
    /\ result[t].line_coverage = 0
    /\ ~result[t].pass_trigger

\* C7: when the coverage command exits with a non-zero status the Outcome has
\* pass_trigger = false, line_coverage = 0 and no coverage records, and
\* pass_syntax and pass_compile are true.
C7_CoverageDemotion ==
  \A t \in Trials :
    (Done(t) /\ covChild[t].state = "exitN") =>
      /\ ~result[t].pass_trigger
      /\ result[t].line_coverage = 0
      /\ result[t].lines_coverage_info = <<>>
      /\ result[t].pass_syntax
      /\ result[t].pass_compile

C7_Witness ==
  \E t \in Trials : Done(t) /\ covChild[t].state = "exitN" /\ ~result[t].pass_trigger

\* the text of a stdout line without its line terminator
LineText(line) == IF line = "Failing tests: 0\n" THEN "Failing tests: 0" ELSE line
LastLineIsMarker(out) == Len(out) > 0 /\ LineText(out[Len(out)]) = "Failing tests: 0"

\* C8: after run-test exited 0, the coverage command is launched and
\* pass_trigger can be true only if the last stdout line is "Failing tests: 0";
\* with any other last line or no output the coverage command is never
\* launched and the Outcome has pass_trigger = false.
C8_TriggerMarker ==
  \A t \in Trials :
    (testChild[t].state = "exit0" /\ pc[t] # "poll_test") =>
      /\ covChild[t].state # "none" => LastLineIsMarker(testChild[t].out)
      /\ (Done(t) /\ result[t].pass_trigger) => LastLineIsMarker(testChild[t].out)
      /\ ~LastLineIsMarker(testChild[t].out) =>
           (covChild[t].state = "none" /\ Done(t) /\ ~result[t].pass_trigger)

C8_Witness ==
  \E t \in Trials :
    /\ testChild[t].state = "exit0"
    /\ Len(testChild[t].out) = 2
    /\ testChild[t].out[1] = MarkerLine
    /\ Done(t)
    /\ ~result[t].pass_trigger
    /\ covChild[t].state = "none"

\* C9: whenever a trial has ended, by returning or by an exception, its
\* workspace directory does not exist any more.
C9_WorkspaceReleased ==
  \A t \in Trials : Ended(t) => tmpdir[tmp_folder[t]] = "absent"

\* C10: a trial whose checkout failed still returns an Outcome, with
\* pass_compile = false, and its workspace is released; nothing is raised.
C10_CheckoutFailureIsBuildFailure ==
  \A t \in Trials :
    (hist[t].checkout = "failed" /\ pc[t] \notin {"queued", "checked_out"}) =>
      /\ Done(t)
      /\ ~result[t].pass_compile
      /\ tmpdir[tmp_folder[t]] = "absent"

\* C18: get_pass_at_k(n, n, k) = 1, get_pass_at_k(n, 0, k) = 0 when k <= n and
\* 1 when k > n, and the value is exactly 1 whenever n - c < k.
C18_EstimatorEndpoints ==
  est.done =>
    /\ est.c = est.n => (est.out.num = est.out.den)
    /\ (est.c = 0 /\ est.k <= est.n) => est.out.num = 0
    /\ (est.c = 0 /\ est.k > est.n) => (est.out.num = est.out.den)
    /\ est.n - est.c < est.k => (est.out.num = est.out.den)

C18_Witness == est.done /\ est.c = 0 /\ est.k = est.n /\ est.out.num = 0

\* C19: for n >= 1, 0 <= c <= n, k >= 1 the value of get_pass_at_k lies in
\* [0, 1], and where the product is evaluated each factor 1 - k/i is in [0, 1).
C19_EstimatorRange ==
  est.done =>
    /\ RatLeq(Rat(0, 1), est.out)
    /\ RatLeq(est.out, Rat(1, 1))
    /\ est.n - est.c >= est.k =>
         \A i \in (est.n - est.c + 1)..est.n :
           /\ RatLeq(Rat(0, 1), RatSub(Rat(1, 1), Rat(est.k, i)))
           /\ RatLess(RatSub(Rat(1, 1), Rat(est.k, i)), Rat(1, 1))

C19_Witness ==
  /\ est.done
  /\ est.n - est.c >= est.k
  /\ est.c >= 2
  /\ RatLess(Rat(0, 1), est.out)
  /\ RatLess(est.out, Rat(1, 1))

\* C20: for c < n the value for c passes is at most the value for c + 1
\* passes, also where c + 1 is the first count that takes the n - c < k branch.
C20_EstimatorMonotone ==
  (est.done /\ est.c < est.n) =>
    RatLeq(est.out, get_pass_at_k(est.n, est.c + 1, est.k))

C20_Witness ==
  /\ est.done
  /\ est.c < est.n
  /\ est.n - est.c = est.k
  /\ est.c >= 1
  /\ RatLess(est.out, get_pass_at_k(est.n, est.c + 1, est.k))

\* C11: evaluate collects one Outcome for every submitted trial: each future
\* it takes from as_completed adds an Outcome to all_bug_results_list, and it
\* leaves the collection loop only with as many Outcomes as trials submitted.
C11_CompleteCollection ==
  /\ Len(all_bug_results_list) = Cardinality(collected)
  /\ evalpc # "collecting" => Len(all_bug_results_list) = Cardinality(Submitted)

\* the trials of idx in the order evaluate folds their Outcomes
GensOf(idx) == SelectSeq(order, LAMBDA t : TaskOf(t) = idx)

\* C12: when the statistics of a task have been computed, its Outcomes were
\* folded in candidate order, whatever the completion order was.
C12_FoldInCandidateOrder ==
  evalpc = "returned" =>
    \A idx \in Tasks :
      \A i, j \in 1..Len(GensOf(idx)) :
        i < j => GensOf(idx)[i] < GensOf(idx)[j]

\* C13: two trials that are both between workspace creation and workspace
\* release never use the same workspace directory.
C13_WorkspaceExclusive ==
  \A a, b \in Busy : a # b => tmp_folder[a] # tmp_folder[b]

\* C14: the stderr a trial scans for an "error:" line after a failed build was
\* written by that trial's own run-test process and by no other trial's.
C14_OwnStderr ==
  \A t \in Trials : hist[t].scanned \subseteq {t}

\* C17: when a trial has returned its Outcome, no process group it signalled at
\* a deadline is still running.
C17_NoOrphans ==
  \A t \in Trials :
    Done(t) => (testChild[t].state # "signalled" /\ covChild[t].state # "signalled")

\* the (class, file, line-number) key of a coverage record
LineKey(x) == <<x[1], x[2], x[3]>>

\* the coverage records reported by any Outcome of idx
RecordsOf(idx) ==
  UNION { {all_bug_results_dict(idx)[j].lines_coverage_info[i] :
             i \in 1..Len(all_bug_results_dict(idx)[j].lines_coverage_info)} :
          j \in 1..Len(all_bug_results_dict(idx)) }

\* how many Outcomes of idx report the key as hit
HitReports(idx, key) ==
  Cardinality({j \in 1..Len(all_bug_results_dict(idx)) :
     \E i \in 1..Len(all_bug_results_dict(idx)[j].lines_coverage_info) :
        /\ LineKey(all_bug_results_dict(idx)[j].lines_coverage_info[i]) = key
        /\ all_bug_results_dict(idx)[j].lines_coverage_info[i][4]})

\* C15: diff_coverage of a task is the number of distinct (class, file, line)
\* keys some trial reports hit over the number of distinct keys any trial
\* reports, and 0 when there are no records.
C15_DiffCoverageByKey ==
  evalpc = "returned" =>
    \A idx \in DOMAIN results :
      IF RecordsOf(idx) = {}
        THEN results[idx].diff_coverage.num = 0
        ELSE RatEq(results[idx].diff_coverage,
                   Rat(Cardinality({LineKey(x) : x \in {y \in RecordsOf(idx) : y[4]}}),
                       Cardinality({LineKey(x) : x \in RecordsOf(idx)})))

\* C16: a (class, file, line) that two or more trials of a task report hit
\* adds exactly one to the numerator and one to the denominator of diff_coverage.
C16_HitDedupe ==
  evalpc = "returned" =>
    \A idx \in DOMAIN results :
      \A key \in {LineKey(x) : x \in RecordsOf(idx)} :
        HitReports(idx, key) >= 2 =>
          /\ results[idx].diff_coverage.num
               - Cardinality({x \in RecordsOf(idx) : LineKey(x) # key /\ x[4]}) = 1
          /\ results[idx].diff_coverage.den
               - Cardinality({x \in RecordsOf(idx) : LineKey(x) # key}) = 1

\* C23: when the coverage command exited cleanly and left no coverage.xml, the
\* trial returns an Outcome without coverage records and raises nothing.
C23_MissingReportIsEmpty ==
  \A t \in Trials :
    (Ended(t) /\ covChild[t].state = "exit0" /\ covChild[t].xml.status = "absent") =>
      (Done(t) /\ raised[t] = "none" /\ result[t].lines_coverage_info = <<>>)

\* the commands of a trial that run in a subprocess
SubprocessCmds == {"rm", "checkout", "test", "coverage"}

\* C24: a trial whose spliced source fails the syntax stage has launched no
\* subprocess.
C24_SyntaxFailureLaunchesNothing ==
  \A t \in Trials :
    hist[t].parses = "no" =>
      \A i \in 1..Len(hist[t].cmds) : hist[t].cmds[i] \notin SubprocessCmds

\* how often a trial issued a command
Times(t, cmd) == Cardinality({i \in 1..Len(hist[t].cmds) : hist[t].cmds[i] = cmd})

\* C25: the coverage command of a trial is launched only after its run-test
\* command exited 0 with the trigger marker as last line and after the
\* increment file was written, and run-test and coverage are each launched at
\* most once in a trial.
C25_StageOrdering ==
  \A t \in Trials :
    /\ Times(t, "test") <= 1
    /\ Times(t, "coverage") <= 1
    /\ covChild[t].state # "none" <=> Times(t, "coverage") = 1
    /\ testChild[t].state # "none" <=> Times(t, "test") = 1
    /\ \A i \in 1..Len(hist[t].cmds) :
         hist[t].cmds[i] = "coverage" =>
           /\ \E j \in 1..(i - 1) : hist[t].cmds[j] = "increment"
           /\ \E j \in 1..(i - 1) : hist[t].cmds[j] = "test"
           /\ testChild[t].state = "exit0"
           /\ LastLineIsMarker(testChild[t].out)

C25_Witness ==
  \E t \in Trials :
    /\ Done(t)
    /\ Times(t, "coverage") = 1
    /\ covChild[t].state = "exit0"
    /\ result[t].pass_trigger

\* C26: in every returned Outcome pass_trigger implies pass_compile and
\* pass_compile implies pass_syntax.
C26_GatingChain ==
  \A t \in Trials :
    Done(t) =>
      /\ result[t].pass_trigger => result[t].pass_compile
      /\ result[t].pass_compile => result[t].pass_syntax

C26_Witness ==
  \E t \in Trials :
    /\ Done(t)
    /\ result[t].pass_trigger /\ result[t].pass_compile /\ result[t].pass_syntax
    /\ hist[t].parses = "yes"

\* C27: a trial whose run-test command exited non-zero returns pass_syntax =
\* true, pass_compile = false, pass_trigger = false, timed_out = false, zero
\* coverage and no records, and has not launched the coverage command, whether
\* or not a stderr line matched the "error:" pattern.
C27_BuildFailure ==
  \A t \in Trials :
    (testChild[t].state = "exitN" /\ pc[t] # "poll_test") =>
      /\ Done(t)
      /\ result[t].pass_syntax
      /\ ~result[t].pass_compile
      /\ ~result[t].pass_trigger
      /\ ~result[t].timed_out
      /\ result[t].line_coverage = 0
      /\ result[t].condition_coverage = 0
      /\ result[t].lines_coverage_info = <<>>
      /\ covChild[t].state = "none"
      /\ Times(t, "coverage") = 0

C27_Witness ==
  \E t \in Trials :
    Done(t) /\ testChild[t].state = "exitN" /\ hist[t].matched /\ ~result[t].pass_compile

\* the output ends with a numeric "Line coverage" line followed by a numeric
\* "Condition coverage" line
Recognized(log) ==
  /\ Len(log) >= 2
  /\ log[Len(log) - 1].label = "Line coverage" /\ log[Len(log) - 1].numeric
  /\ log[Len(log)].label = "Condition coverage" /\ log[Len(log)].numeric

\* C28: when the coverage command exited cleanly with output that does not end
\* with the two coverage lines, the trial returns line_coverage = 0,
\* condition_coverage = 0 and pass_trigger = false.
C28_UnrecognizedCoverageOutput ==
  \A t \in Trials :
    (Ended(t) /\ covChild[t].state = "exit0" /\ ~Recognized(covChild[t].out)) =>
      /\ Done(t)
      /\ result[t].line_coverage = 0
      /\ result[t].condition_coverage = 0
      /\ ~result[t].pass_trigger

\* C21: after the splice, the lines of the spliced text from line index start
\* on, as many as the candidate has, are the candidate's lines in order, and
\* joined they are the candidate.
C21_SpliceRoundTrip ==
  spl.done =>
    /\ Len(Split(spl.out)) >= spl.start + Len(Split(spl.patch))
    /\ SubSeq(Split(spl.out), spl.start + 1, spl.start + Len(Split(spl.patch)))
         = Split(spl.patch)
    /\ Join(SubSeq(Split(spl.out), spl.start + 1, spl.start + Len(Split(spl.patch))))
         = spl.patch

C21_Witness ==
  /\ spl.done
  /\ Len(Split(spl.patch)) >= 2
  /\ spl.start >= 1
  /\ spl.start < spl.end
  /\ spl.end < Len(Split(spl.source)) - 1

\* the binomial coefficient C(n, k), 0 when k > n
RECURSIVE Binom(_, _)
Binom(n, k) ==
  IF k = 0 THEN 1
  ELSE IF n = 0 THEN 0
  ELSE Binom(n - 1, k - 1) + Binom(n - 1, k)

\* C30: for 1 <= k <= n the value of get_pass_at_k(n, c, k) is
\* 1 - C(n - c, k) / C(n, k), and the estimators of the MBPP and MultiPL-E
\* evaluators return the same value.
C30_EstimatorIsCombinatorial ==
  (est.done /\ est.k <= est.n) =>
    /\ RatEq(est.out, Rat(Binom(est.n, est.k) - Binom(est.n - est.c, est.k),
                          Binom(est.n, est.k)))
    /\ RatEq(est.out, mbpp_estimator(est.n, est.c, est.k))
    /\ RatEq(est.out, multiple_java_estimator(est.n, est.c, est.k))
    /\ RatEq(est.out, multiple_python_estimator(est.n, est.c, est.k))

C30_Witness ==
  /\ est.done
  /\ est.k >= 2
  /\ est.c >= 2
  /\ est.n - est.c > est.k
  /\ RatEq(est.out, Rat(Binom(est.n, est.k) - Binom(est.n - est.c, est.k),
                        Binom(est.n, est.k)))

\* the number of Outcomes collected for idx, and of those with a stage flag true
TrialsOf(idx) == Len(all_bug_results_dict(idx))
StageCount(idx, key) ==
  Cardinality({i \in 1..TrialsOf(idx) : all_bug_results_dict(idx)[i][key]})
Stages == {"pass_syntax", "pass_compile", "pass_trigger"}

\* the tasks with at least k trials
Contributing(k) == {idx \in keys_list : TrialsOf(idx) >= k}

RECURSIVE SumEstimates(_, _, _)
SumEstimates(S, key, k) ==
  IF S = {} THEN Rat(0, 1)
  ELSE RatAdd(get_pass_at_k(TrialsOf(CHOOSE x \in S : TRUE),
                            StageCount(CHOOSE x \in S : TRUE, key), k),
              SumEstimates(S \ {CHOOSE x \in S : TRUE}, key, k))

\* C22: for every stage and every k of 1, 5, 10, 20, 100, a task has a
\* pass@k-k value exactly when it has at least k trials, the value is
\* get_pass_at_k(total, count, k), and the reported pass@k-k exists exactly
\* when some task contributes and is the mean of the contributed values.
C22_TooFewTrialsExcluded ==
  evalpc = "returned" =>
    \A key \in Stages, k \in PassKs :
      /\ \A idx \in DOMAIN results :
           /\ k \in DOMAIN results[idx][key].pass_at_k <=> TrialsOf(idx) >= k
           /\ TrialsOf(idx) >= k =>
                RatEq(results[idx][key].pass_at_k[k],
                      get_pass_at_k(TrialsOf(idx), StageCount(idx, key), k))
      /\ k \in DOMAIN report[key].pass_at_k <=> Contributing(k) # {}
      /\ Contributing(k) # {} =>
           RatEq(RatMul(report[key].pass_at_k[k], Rat(Cardinality(Contributing(k)), 1)),
                 SumEstimates(Contributing(k), key, k))

C22_Witness ==
  /\ evalpc = "returned"
  /\ \E a, b \in DOMAIN results :
       /\ TrialsOf(a) = 5 /\ StageCount(a, "pass_trigger") = 0
       /\ TrialsOf(b) < 5 /\ StageCount(b, "pass_trigger") > 0
       /\ 5 \in DOMAIN results[a].pass_trigger.pass_at_k
       /\ 5 \notin DOMAIN results[b].pass_trigger.pass_at_k
  /\ report.pass_trigger.pass_at_k[5].num = 0
  /\ report.pass_trigger.pass_at_k[1].num > 0

\* the sum of the line_coverage of the Outcomes of idx that passed the trigger stage
RECURSIVE PassingCoverage(_)
PassingCoverage(bug_results) ==
  IF bug_results = <<>> THEN 0
  ELSE (IF Head(bug_results).pass_trigger THEN Head(bug_results).line_coverage ELSE 0)
         + PassingCoverage(Tail(bug_results))

RECURSIVE SumTimedOut(_)
SumTimedOut(keys) ==
  IF keys = {} THEN 0
  ELSE Cardinality({i \in 1..TrialsOf(CHOOSE x \in keys : TRUE) :
                      all_bug_results_dict(CHOOSE x \in keys : TRUE)[i].timed_out})
         + SumTimedOut(keys \ {CHOOSE x \in keys : TRUE})

\* C29: for every task, total is the number of its Outcomes, each stage count
\* and timed_out is the number of its Outcomes with the flag true, the mean
\* line coverage is the line coverage of its passing trials summed and divided
\* by total; the corpus timed_out is the sum over the tasks.
C29_FoldCorrect ==
  evalpc = "returned" =>
    /\ DOMAIN results = keys_list
    /\ \A idx \in DOMAIN results :
         /\ results[idx].total = TrialsOf(idx)
         /\ \A key \in Stages : results[idx][key].count = StageCount(idx, key)
         /\ results[idx].timed_out = StageCount(idx, "timed_out")
         /\ RatEq(results[idx].line_coverage,
                  Rat(PassingCoverage(all_bug_results_dict(idx)), TrialsOf(idx)))
    /\ report.timed_out = SumTimedOut(keys_list)
    /\ report.total = Cardinality(keys_list)

C29_Witness ==
  /\ evalpc = "returned"
  /\ report.timed_out = 1
  /\ report.total = 1
  /\ \E idx \in DOMAIN results :
       /\ results[idx].total = 3
       /\ results[idx].pass_trigger.count = 1
       /\ results[idx].timed_out = 1
       /\ RatEq(results[idx].line_coverage, Rat(80, 3))

\* C31: the spliced text has the source lines before index start unchanged,
\* then the candidate's lines, then the source lines after index end unchanged
\* and in their order; exactly end - start + 1 source lines are gone.
C31_SpliceFrame ==
  spl.done =>
    /\ Len(Split(spl.out))
         = Len(Split(spl.source)) - (spl.end - spl.start + 1) + Len(Split(spl.patch))
    /\ \A i \in 1..spl.start : Split(spl.out)[i] = Split(spl.source)[i]
    /\ \A i \in 1..Len(Split(spl.patch)) :
         Split(spl.out)[spl.start + i] = Split(spl.patch)[i]
    /\ \A i \in (spl.end + 2)..Len(Split(spl.source)) :
         Split(spl.out)[i - (spl.end - spl.start + 1) + Len(Split(spl.patch))]
           = Split(spl.source)[i]

C31_Witness ==
  /\ spl.done
  /\ spl.start >= 1
  /\ spl.end + 1 < Len(Split(spl.source))
  /\ Split(spl.source)[1] # <<>>
  /\ Len(Split(spl.patch)) # spl.end - spl.start + 1
  /\ Len(Split(spl.out)) # Len(Split(spl.source))

\* C33: every returned Outcome with pass_trigger = false has line_coverage = 0,
\* whichever stage failed, so a trial adds a non-zero term to its task's mean
\* line coverage only if it passed every stage.
C33_FailedTrialsCarryNoCoverage ==
  \A t \in Trials :
    Done(t) =>
      /\ ~result[t].pass_trigger => result[t].line_coverage = 0
      /\ result[t].line_coverage # 0 =>
           (result[t].pass_syntax /\ result[t].pass_compile /\ result[t].pass_trigger)

C33_Witness ==
  \E t \in Trials :
    /\ Done(t)
    /\ Killed(covChild[t])
    /\ ~result[t].pass_trigger
    /\ result[t].line_coverage = 0

\* all_bug_results_list had the trials that completed i-th and (i+1)-th
\* completed in the other order
Reordered(i) ==
  [j \in 1..Len(all_bug_results_list) |->
     IF j = i THEN all_bug_results_list[i + 1]
     ELSE IF j = i + 1 THEN all_bug_results_list[i]
     ELSE all_bug_results_list[j]]

\* lines 210-214 on a list of Outcomes
GroupOf(list, idx) == SelectSeq(list, LAMBDA r : r.idx = idx)

\* the names of the pass@k entries of a per-task detail or of the corpus report
MetricNames(entry) == [key \in Stages |-> DOMAIN entry[key].pass_at_k]

\* the per-task details evaluate builds from a list of Outcomes
DetailsOf(list) ==
  [idx \in {list[i].idx : i \in 1..Len(list)} |-> example_detail(GroupOf(list, idx))]

\* C32: had any two trials that completed one after the other completed in the
\* other order, evaluate would build for every task the same total, stage
\* counts, timed_out count, set of distinct coverage records and diff_coverage,
\* and the same metric names per task and in the corpus report, with the same
\* corpus counts. (Every completion order is an initial list, and any order is
\* reached from any other by exchanging neighbours, so this is the independence
\* of the report from the completion order.)
C32_ScheduleIndependence ==
  evalpc = "returned" =>
    \A i \in 1..(Len(all_bug_results_list) - 1) :
      LET list == Reordered(i)
          details == DetailsOf(list)
          rep == Report(details)
      IN /\ DOMAIN details = DOMAIN results
         /\ \A idx \in DOMAIN results :
              LET d == details[idx]
              IN /\ d.total = results[idx].total
                 /\ \A key \in Stages : d[key].count = results[idx][key].count
                 /\ d.timed_out = results[idx].timed_out
                 /\ FoldResults(NewDetail, GroupOf(list, idx)).diff_coverage
                      = FoldResults(NewDetail, all_bug_results_dict(idx)).diff_coverage
                 /\ d.diff_coverage = results[idx].diff_coverage
                 /\ MetricNames(d) = MetricNames(results[idx])
         /\ MetricNames(rep) = MetricNames(report)
         /\ rep.total = report.total
         /\ rep.timed_out = report.timed_out
         /\ \A key \in Stages : rep[key].count = report[key].count

\* two trials of one task completed one after the other, the first reporting a
\* line hit and the second reporting it missed, after a trial of another task
C32_Witness ==
  /\ evalpc = "returned"
  /\ Len(all_bug_results_list) = 3
  /\ all_bug_results_list[1].idx # all_bug_results_list[2].idx
  /\ all_bug_results_list[2].idx = all_bug_results_list[3].idx
  /\ all_bug_results_list[2].lines_coverage_info # <<>>
  /\ all_bug_results_list[3].lines_coverage_info # <<>>
  /\ all_bug_results_list[2].lines_coverage_info
       # all_bug_results_list[3].lines_coverage_info
  /\ all_bug_results_list[2].lines_coverage_info[1][4]
  /\ results[all_bug_results_list[2].idx].diff_coverage.den = 2

====
